---- MODULE Spec2Model ----
(***************************************************************************)
(* Transport buffering layer of the no-OS network server:                  *)
(*   comm_util.c  - the tagged chunk FIFO, comm_read_line, comm_read       *)
(*   network.c    - lwIP callbacks, the instance registry, the writer      *)
(* The program is single threaded.  Socket callbacks run only inside       *)
(* lwip_keep_alive() (the pump), so the model has one program counter, pc, *)
(* and the callbacks are enabled only while pc is inside a pump call.      *)
(***************************************************************************)
EXTENDS Integers, Sequences, FiniteSets, TLC

VARIABLES
    network_fifo,   \* network.c:68  the chunk list, head first
    pc,             \* where the single thread of control is
    rd,             \* locals of the running comm_read_line / comm_read
    hist,           \* observation of the running call: the queue when its wait loop ended,
                    \* the chunks it took, whether it pumped while waiting / after that,
                    \* the tokens a close took off the queue while it pumped
    instances,      \* network.c:69  ids linked in the uthash registry
    es,             \* the struct network_instance allocated for each id (state, p)
    inst_id,        \* network.c:126 static id counter of network_accept
    sock,           \* the tcp_pcb of each id as the socket layer has it
    freed,          \* how often mem_free was called on each id's network_instance
    tcpclosed,      \* how often tcp_close was called on each id's pcb
    closes,         \* how often network_close_instance returned success for each id
    net,            \* observation of the last socket callback of the running pump
    wr,             \* locals of the running network_write_data and the sends it made
    enq,            \* every chunk handed to fifo_insert_tail, in call order (direct calls)
    deq             \* every chunk taken off by fifo_remove_head, in call order (direct calls)

vars == <<network_fifo, pc, rd, hist, instances, es, inst_id, sock, freed, tcpclosed,
          closes, net, wr, enq, deq>>
netvars == <<instances, es, inst_id, sock, freed, tcpclosed, closes, net, wr>>

----------------------------------------------------------------------------
(* Bytes.  A chunk's data is a sequence of byte values.                     *)

NUL == 0
LF == 10
CR == 13
Bytes == {NUL, LF, CR, 97}

\* bounds of the model
MaxTokens == 3      \* tokens held by the queue plus tokens already taken by a running read
MaxQueue == 3       \* chunks in the queue
MaxRead == 3        \* largest length asked of comm_read
MaxOverread == 1    \* bytes of foreign memory after a buffer that the model distinguishes
MaxOps == 4         \* direct fifo_insert_tail calls in the list-only specification
MaxConn == 2        \* connections accepted
MaxChain == 2       \* pbufs in one received chain
MaxWrite == 3       \* largest length asked of network_write_data
MaxCredit == 2      \* largest send-window credit tcp_sndbuf reports

Ids == {1, 2}

\* Received data is built from these pieces.  Every byte string over Bytes in
\* which each LF follows a CR is a concatenation of them; an LF that follows
\* no CR is read by strstr like the ordinary byte 97.
Tokens == {<<97>>, <<CR>>, <<CR, LF>>, <<NUL>>}

RECURSIVE Flatten(_)
Flatten(t) == IF Len(t) = 0 THEN <<>> ELSE t[1] \o Flatten(Tail(t))

RECURSIVE SeqsUpTo(_, _)
SeqsUpTo(S, n) ==
    IF n = 0 THEN {<<>>}
    ELSE LET shorter == SeqsUpTo(S, n - 1)
         IN  shorter \cup {Append(s, b) : s \in {t \in shorter : Len(t) = n - 1}, b \in S}

Overreads == SeqsUpTo(Bytes, MaxOverread)
SmallPayloads == {<<97>>, <<CR, 97>>}

\* tokens a byte string is made of (CR LF counts once)
RECURSIVE TokenCount(_)
TokenCount(b) ==
    IF b = <<>> THEN 0
    ELSE IF Len(b) >= 2 /\ b[1] = CR /\ b[2] = LF THEN 1 + TokenCount(SubSeq(b, 3, Len(b)))
    ELSE 1 + TokenCount(Tail(b))

RECURSIVE Concat(_)
Concat(f) == IF f = <<>> THEN <<>> ELSE f[1].data \o Concat(Tail(f))

----------------------------------------------------------------------------
(* comm_util.c: the list                                                    *)

new_buffer == [instance_id |-> 0, data |-> <<>>, len |-> 0]

fifo_insert_head_mutant(f, buff, len, id) ==
    <<[new_buffer EXCEPT !.instance_id = id, !.data = SubSeq(buff, 1, len), !.len = len]>> \o f

\* walks to the last node and links a new node holding a copy of buff[0..len)
fifo_insert_tail(f, buff, len, id) ==
    Append(f, [new_buffer EXCEPT !.instance_id = id,
                                 !.data = SubSeq(buff, 1, len),
                                 !.len = len])

\* frees the head node and returns the rest of the list
fifo_remove_head(f) == IF f = <<>> THEN <<>> ELSE Tail(f)

----------------------------------------------------------------------------
(* comm_util.c: comm_read_line                                              *)

\* strstr(data + i, "\r\n") on the bytes mem that start at data: the offset
\* from data of the first CR LF that lies before the first NUL, or -1 (NULL).
\* mem always ends with a NUL, so the scan stops.
RECURSIVE strstr(_, _)
strstr(mem, i) ==
    IF i + 1 > Len(mem) \/ mem[i + 1] = NUL THEN -1
    ELSE IF mem[i + 1] = CR /\ i + 2 <= Len(mem) /\ mem[i + 2] = LF THEN i
    ELSE strstr(mem, i + 1)

\* line 132: a leading CR LF is taken off the node's length
strip_len(len) == len - 2

\* line 133: and the scan resumes behind it
strip_skip_mutant(data) == data + 1

strip_skip(data) == data + 2

\* line 141: the whole chunk is used up by the line and its terminator
line_uses_chunk_mutant(length, len) == length + 2 > len

line_uses_chunk(length, len) == length + 2 >= len

\* lines 144-148: the node keeps its tag; len and data become the remainder
line_remainder_mutant(node, mem, end, length) ==
    LET newlen == node.len - length - 2
    IN  [node EXCEPT !.len = newlen, !.data = SubSeq(mem, end + 2, end + 1 + newlen)]

line_remainder(node, mem, end, length) ==
    LET newlen == node.len - length - 2
    IN  [node EXCEPT !.len = newlen, !.data = SubSeq(mem, end + 3, end + 2 + newlen)]

\* lines 129-156 on a non-empty list f.  The chunk buffer is malloc(len) bytes
\* with no terminator (line 86), so strstr and memcpy may run into whatever
\* memory follows it: g is that memory (any bytes), and a NUL ends it.
\* buf is the sequence of bytes written to the caller's buffer, from buf[0].
comm_read_line(f, g) ==
    LET mem    == f[1].data \o g \o <<NUL>>
        end0   == strstr(mem, 0)
        strip  == end0 = 0                                \* line 131
        len1   == IF strip THEN strip_len(f[1].len) ELSE f[1].len  \* line 132
        data   == IF strip THEN strip_skip(0) ELSE 0        \* line 133
        end    == IF strip THEN strstr(mem, data) ELSE end0 \* line 134
        node   == [f[1] EXCEPT !.len = len1]
        length == end - data                                \* line 138
    IN  IF end # -1
        THEN [crash |-> FALSE,
              instance_id |-> f[1].instance_id,
              ret  |-> length,
              buf  |-> SubSeq(mem, data + 1, data + length) \o <<NUL>>,
              fifo |-> IF line_uses_chunk(length, len1)
                       THEN fifo_remove_head(f)
                       ELSE <<line_remainder(node, mem, end, length)>> \o Tail(f)]
        ELSE IF len1 < 0
        THEN \* line 151: memcpy of (size_t)len1 bytes runs off the memory
             [crash |-> TRUE, instance_id |-> f[1].instance_id, ret |-> 0,
              buf |-> <<>>, fifo |-> f]
        ELSE \* lines 151-153: length is still 0, so buf[0] is overwritten
             [crash |-> FALSE,
              instance_id |-> f[1].instance_id,
              ret  |-> 0,
              buf  |-> <<NUL>> \o SubSeq(mem, 2, len1),
              fifo |-> fifo_remove_head(f)]

----------------------------------------------------------------------------
(* comm_util.c: comm_read                                                   *)

\* lines 187-193: keep the node, its data replaced by the bytes after the first len
read_remainder_mutant(node, len) ==
    [node EXCEPT !.len = node.len - len,
                 !.data = SubSeq(node.data, 1, node.len - len)]

read_remainder(node, len) ==
    [node EXCEPT !.len = node.len - len,
                 !.data = SubSeq(node.data, len + 1, node.len)]

\* lines 178-181: one pass of the do-while body on a non-empty list:
\* the WHOLE head chunk is copied behind what was copied before
read_take_mutant(f, r) ==
    [r EXCEPT !.buf = f[1].data \o r.buf,
              !.temp_len = r.temp_len + f[1].len]

read_take(f, r) ==
    [r EXCEPT !.buf = r.buf \o f[1].data,
              !.temp_len = r.temp_len + f[1].len]

\* line 185: the do-while goes round again
read_more_mutant(temp_len, len) == temp_len <= len

read_more(temp_len, len) == temp_len < len

RdIdle == [op |-> "none", len |-> 0, buf |-> <<>>, temp_len |-> 0,
           instance_id |-> 0, ret |-> 0]
HistIdle == [fifo0 |-> <<>>, taken |-> <<>>, waited |-> FALSE, pumped |-> FALSE,
             dropped |-> 0]

\* lines 169-194 on a non-empty list f: the three cases on the head's length.
\* "more" means the do-while has copied the head and goes on to the pump.
comm_read_start(f, len) ==
    LET r0 == [RdIdle EXCEPT !.op = "read", !.len = len,
                             !.instance_id = f[1].instance_id]
    IN  IF f[1].len = len
        THEN [more |-> FALSE, fifo |-> fifo_remove_head(f),
              rd |-> [r0 EXCEPT !.buf = SubSeq(f[1].data, 1, len),
                                !.temp_len = len, !.ret = len]]
        ELSE IF f[1].len < len
        THEN [more |-> TRUE, fifo |-> fifo_remove_head(f), rd |-> read_take(f, r0)]
        ELSE [more |-> FALSE, fifo |-> <<read_remainder(f[1], len)>> \o Tail(f),
              rd |-> [r0 EXCEPT !.buf = SubSeq(f[1].data, 1, len),
                                !.temp_len = len, !.ret = len]]

----------------------------------------------------------------------------
(* network.c                                                                *)

ENOENT == 2
ConnIds == 1..MaxConn
Chains == UNION {[1..n -> SmallPayloads] : n \in 1..MaxChain}

EsNone == [state |-> "ES_NONE", p |-> <<>>]
NetIdle == [kind |-> "none", id |-> 0, chain |-> <<>>, fifo0 |-> <<>>, acks |-> <<>>]
WrIdle == [instance_id |-> 0, len0 |-> 0, len |-> 0, pbuffer |-> 0, credit |-> 0,
           sends |-> <<>>]

\* line 264: the byte count acknowledged for the pbuf at the head of chain p
store_ack_mutant(p) == Len(Flatten(p))

store_ack(p) == Len(p[1])

\* lines 245-265: every pbuf of the chain p, in order, is copied to the tail
\* of the list under the instance's id, unlinked, freed and acknowledged
network_store_mutant(f, p, id, acks) ==
    IF p = <<>> THEN [fifo |-> f, p |-> <<>>, acks |-> acks]
    ELSE [fifo |-> fifo_insert_tail(f, p[1], Len(p[1]), id), p |-> Tail(p),
          acks |-> Append(acks, store_ack(p))]

RECURSIVE network_store(_, _, _, _)
network_store(f, p, id, acks) ==
    IF p = <<>> THEN [fifo |-> f, p |-> <<>>, acks |-> acks]
    ELSE network_store(fifo_insert_tail(f, p[1], Len(p[1]), id), Tail(p), id,
                       Append(acks, store_ack(p)))

\* lines 273-275: every chunk of the list is removed, whatever its tag
close_drain_mutant(f) == fifo_remove_head(f)

RECURSIVE close_drain(_)
close_drain(f) == IF f = <<>> THEN f ELSE close_drain(fifo_remove_head(f))

Bump(n) == IF n < 2 THEN n + 1 ELSE 2

\* lines 271-286: network_close(tpcb, es) for the instance and pcb of id:
\* the list is emptied, the callbacks are taken off the pcb, the instance
\* is freed and the pcb is closed
network_close_mutant(id) ==
    /\ network_fifo' = close_drain(network_fifo)
    /\ freed' = [freed EXCEPT ![id] = Bump(@)]
    /\ UNCHANGED <<sock, tcpclosed>>

network_close(id) ==
    /\ network_fifo' = close_drain(network_fifo)
    /\ freed' = [freed EXCEPT ![id] = Bump(@)]
    /\ sock' = [sock EXCEPT ![id] = "closed"]
    /\ tcpclosed' = [tcpclosed EXCEPT ![id] = Bump(@)]

\* line 322: the bytes of one tcp_write
wr_length_mutant(buf_len, len) == IF buf_len > len THEN buf_len ELSE len

wr_length(buf_len, len) == IF buf_len > len THEN len ELSE buf_len

\* line 326: the buffer pointer after a tcp_write of n bytes
wr_advance_mutant(pbuffer, n) == pbuffer

wr_advance(pbuffer, n) == pbuffer + n

\* what HASH_FIND_INT can give for id: the node when it is linked and alive,
\* nothing when it is not linked; a linked node that was freed is read from
\* released memory, and the lookup may find it or miss it
Lookup(id) ==
    IF id \notin instances THEN {FALSE}
    ELSE IF freed[id] > 0 THEN {TRUE, FALSE}
    ELSE {TRUE}

----------------------------------------------------------------------------
(* State machine                                                            *)

\* after network_init and network_start: set_keep_alive has registered the
\* pump, nothing is queued and nobody is connected
Init ==
    /\ network_fifo = <<>>
    /\ pc = "idle"
    /\ rd = RdIdle
    /\ hist = HistIdle
    /\ instances = {}
    /\ es = [id \in ConnIds |-> EsNone]
    /\ inst_id = 0
    /\ sock = [id \in ConnIds |-> "none"]
    /\ freed = [id \in ConnIds |-> 0]
    /\ tcpclosed = [id \in ConnIds |-> 0]
    /\ closes = [id \in ConnIds |-> 0]
    /\ net = NetIdle
    /\ wr = WrIdle
    /\ enq = <<>>
    /\ deq = <<>>

\* inside keep_alive(), called from comm_read_line (126) or comm_read (167, 184),
\* or inside lwip_keep_alive(), called from network_keep_alive (83) or
\* network_write_data (318, 330)
InPump == pc \in {"rl_pump", "rd_pump0", "rd_pump1", "ka_pump", "wr_pump1", "wr_pump2"}

\* comm_read_line past its wait loop (lines 129-156)
LineBody(waited) ==
    \E g \in Overreads :
        LET r == comm_read_line(network_fifo, g)
        IN  /\ network_fifo' = r.fifo
            /\ pc' = IF r.crash THEN "crash" ELSE "ret"
            /\ rd' = [RdIdle EXCEPT !.op = "read_line", !.buf = r.buf,
                                    !.instance_id = r.instance_id, !.ret = r.ret]
            /\ hist' = [fifo0 |-> network_fifo, taken |-> <<network_fifo[1]>>,
                        waited |-> waited, pumped |-> FALSE,
                        dropped |-> hist.dropped]

\* comm_read past its wait loop (lines 169-194, up to the first pump of the do-while)
ReadBody(len, waited) ==
    LET r == comm_read_start(network_fifo, len)
    IN  /\ network_fifo' = r.fifo
        /\ pc' = IF r.more THEN "rd_pump1" ELSE "ret"
        /\ rd' = r.rd
        /\ hist' = [fifo0 |-> network_fifo, taken |-> <<network_fifo[1]>>,
                    waited |-> waited, pumped |-> r.more,
                    dropped |-> hist.dropped]

\* the application calls comm_read_line (network_read_line)
ReadLineCall ==
    /\ pc = "idle"
    /\ IF network_fifo = <<>>
       THEN /\ pc' = "rl_pump"
            /\ rd' = [RdIdle EXCEPT !.op = "read_line"]
            /\ hist' = [HistIdle EXCEPT !.waited = TRUE]
            /\ UNCHANGED network_fifo
       ELSE LineBody(FALSE)
    /\ UNCHANGED <<netvars, enq, deq>>

\* the application calls comm_read (network_read) for len bytes
ReadCall(len) ==
    /\ pc = "idle"
    /\ IF network_fifo = <<>>
       THEN /\ pc' = "rd_pump0"
            /\ rd' = [RdIdle EXCEPT !.op = "read", !.len = len]
            /\ hist' = [HistIdle EXCEPT !.waited = TRUE]
            /\ UNCHANGED network_fifo
       ELSE ReadBody(len, FALSE)
    /\ UNCHANGED <<netvars, enq, deq>>

\* keep_alive() returns to comm_read_line's wait loop (124-127) with data queued
LinePumpReturn ==
    /\ pc = "rl_pump"
    /\ network_fifo # <<>>
    /\ LineBody(TRUE)
    /\ UNCHANGED <<netvars, enq, deq>>

\* keep_alive() returns to comm_read's wait loop (165-168) with data queued
ReadPumpReturn ==
    /\ pc = "rd_pump0"
    /\ network_fifo # <<>>
    /\ ReadBody(rd.len, TRUE)
    /\ UNCHANGED <<netvars, enq, deq>>

\* keep_alive() returns into the do-while (176-185) and a chunk is there to take
ReadLoopReturn ==
    /\ pc = "rd_pump1"
    /\ network_fifo # <<>>
    /\ LET r == read_take(network_fifo, rd)
       IN  /\ rd' = [r EXCEPT !.ret = r.temp_len]
           /\ pc' = IF read_more(r.temp_len, rd.len) THEN "rd_pump1" ELSE "ret"
    /\ hist' = [hist EXCEPT !.taken = Append(hist.taken, network_fifo[1])]
    /\ network_fifo' = fifo_remove_head(network_fifo)
    /\ UNCHANGED <<netvars, enq, deq>>

\* the caller has its result; the next call starts afresh
Return ==
    /\ pc = "ret"
    /\ pc' = "idle"
    /\ rd' = RdIdle
    /\ hist' = HistIdle
    /\ wr' = WrIdle
    /\ UNCHANGED <<network_fifo, instances, es, inst_id, sock, freed, tcpclosed, closes,
                   net, enq, deq>>

\* the registered keep_alive callback hands a chunk to fifo_insert_tail
KeepAliveInsert(id, bytes) ==
    /\ InPump
    /\ Len(network_fifo) < MaxQueue
    /\ network_fifo' = fifo_insert_tail(network_fifo, bytes, Len(bytes), id)
    /\ UNCHANGED <<pc, rd, hist, netvars, enq, deq>>

\* the registered keep_alive callback runs a network_close (network.c
\* 273-275), which takes every chunk off the list
KeepAliveClose ==
    /\ InPump
    /\ network_fifo # <<>>
    /\ network_fifo' = close_drain(network_fifo)
    /\ hist' = [hist EXCEPT !.dropped = @ + TokenCount(Concat(network_fifo))]
    /\ UNCHANGED <<pc, rd, netvars, enq, deq>>

\* tokens that may still arrive: MaxTokens less those queued, those taken by
\* the running read and those a close dropped during it
Room == MaxTokens - TokenCount(Concat(network_fifo)) - TokenCount(rd.buf) - hist.dropped

NextComm ==
    \/ ReadLineCall
    \/ \E len \in 0..MaxRead : ReadCall(len)
    \/ LinePumpReturn
    \/ ReadPumpReturn
    \/ ReadLoopReturn
    \/ Return
    \/ \E id \in Ids, n \in 1..Room :
           \E t \in [1..n -> Tokens] : KeepAliveInsert(id, Flatten(t))
    \/ KeepAliveClose

SpecComm == Init /\ [][NextComm]_vars

----------------------------------------------------------------------------
(* network.c: socket callbacks.  lwIP runs them from lwip_keep_alive() only, *)
(* for a pcb that is open and still has its callbacks.                      *)

commvars == <<pc, rd, hist, wr, enq, deq>>

\* lines 122-156: network_accept; ok is whether mem_malloc gave memory.
\* The id counter advances either way; without memory lwIP drops the pcb.
Accept(ok) ==
    /\ InPump
    /\ inst_id < MaxConn
    /\ inst_id' = inst_id + 1
    /\ IF ok
       THEN /\ es' = [es EXCEPT ![inst_id'] = [state |-> "ES_ACCEPTED", p |-> <<>>]]
            /\ instances' = instances \cup {inst_id'}
            /\ sock' = [sock EXCEPT ![inst_id'] = "open"]
       ELSE /\ sock' = [sock EXCEPT ![inst_id'] = "gone"]
            /\ UNCHANGED <<es, instances>>
    /\ net' = NetIdle
    /\ UNCHANGED <<network_fifo, freed, tcpclosed, closes, commvars>>

\* lines 178-219: network_recv with a pbuf chain and err == ERR_OK.
\* net.kind tells which branch ran: "data" is a chain stored by network_store.
RecvData(id, chain) ==
    /\ InPump
    /\ sock[id] = "open"
    /\ Len(network_fifo) + Len(es[id].p) + Len(chain) <= MaxQueue
    /\ LET stored == network_store(network_fifo, chain, id, <<>>)
           seen   == [kind |-> "data", id |-> id, chain |-> chain,
                      fifo0 |-> network_fifo, acks |-> <<>>]
       IN  CASE es[id].state = "ES_ACCEPTED" ->
                  \* lines 185-192
                  /\ es' = [es EXCEPT ![id] = [state |-> "ES_RECEIVED", p |-> stored.p]]
                  /\ network_fifo' = stored.fifo
                  /\ net' = [seen EXCEPT !.acks = stored.acks]
                  /\ UNCHANGED <<freed, sock, tcpclosed>>
             [] es[id].state = "ES_RECEIVED" /\ es[id].p = <<>> ->
                  \* lines 195-197
                  /\ es' = [es EXCEPT ![id].p = stored.p]
                  /\ network_fifo' = stored.fifo
                  /\ net' = [seen EXCEPT !.acks = stored.acks]
                  /\ UNCHANGED <<freed, sock, tcpclosed>>
             [] es[id].state = "ES_RECEIVED" /\ es[id].p # <<>> ->
                  \* lines 199-203: pbuf_chain
                  /\ es' = [es EXCEPT ![id].p = @ \o chain]
                  /\ net' = [seen EXCEPT !.kind = "chained"]
                  /\ UNCHANGED <<network_fifo, freed, sock, tcpclosed>>
             [] es[id].state = "ES_CLOSING" ->
                  \* lines 206-212
                  /\ es' = [es EXCEPT ![id].p = <<>>]
                  /\ net' = [seen EXCEPT !.kind = "trashed",
                                         !.acks = <<Len(Flatten(chain))>>]
                  /\ network_close(id)
             [] OTHER ->
                  \* lines 213-218
                  /\ es' = [es EXCEPT ![id].p = <<>>]
                  /\ net' = [seen EXCEPT !.kind = "trashed",
                                         !.acks = <<Len(Flatten(chain))>>]
                  /\ UNCHANGED <<network_fifo, freed, sock, tcpclosed>>
    /\ UNCHANGED <<instances, inst_id, closes, commvars>>

\* lines 178-184: network_recv with a pbuf chain and err != ERR_OK: the
\* chain is freed, the instance's chain pointer is cleared, nothing is stored
RecvErr(id) ==
    /\ InPump
    /\ sock[id] = "open"
    /\ es' = [es EXCEPT ![id].p = <<>>]
    /\ net' = [NetIdle EXCEPT !.kind = "failed", !.id = id]
    /\ UNCHANGED <<network_fifo, instances, inst_id, sock, freed, tcpclosed, closes,
                   commvars>>

\* lines 167-177: network_recv with p == NULL, the remote host closed
RecvClose(id) ==
    /\ InPump
    /\ sock[id] = "open"
    /\ net' = [kind |-> "close", id |-> id, chain |-> <<>>, fifo0 |-> network_fifo,
               acks |-> network_store(network_fifo, es[id].p, id, <<>>).acks]
    /\ IF es[id].p = <<>>
       THEN /\ es' = [es EXCEPT ![id].state = "ES_CLOSING"]
            /\ network_close(id)
       ELSE /\ es' = [es EXCEPT ![id] = [state |-> "ES_CLOSING", p |-> <<>>]]
            /\ network_fifo' = network_store(network_fifo, es[id].p, id, <<>>).fifo
            /\ UNCHANGED <<freed, sock, tcpclosed>>
    /\ UNCHANGED <<instances, inst_id, closes, commvars>>

\* lines 227-237: network_error; lwIP has already released the pcb.
\* The instance is freed and stays linked in the registry.
Error(id) ==
    /\ InPump
    /\ sock[id] = "open"
    /\ sock' = [sock EXCEPT ![id] = "gone"]
    /\ freed' = [freed EXCEPT ![id] = Bump(@)]
    /\ net' = NetIdle
    /\ UNCHANGED <<network_fifo, instances, es, inst_id, tcpclosed, closes, commvars>>

----------------------------------------------------------------------------
(* network.c: the calls of the application                                  *)

\* lines 81-84: network_keep_alive runs the pump once
KeepAliveCall ==
    /\ pc = "idle"
    /\ pc' = "ka_pump"
    /\ UNCHANGED <<network_fifo, rd, hist, netvars, enq, deq>>

KeepAliveDone ==
    /\ pc = "ka_pump"
    /\ pc' = "idle"
    /\ net' = NetIdle
    /\ UNCHANGED <<network_fifo, rd, hist, instances, es, inst_id, sock, freed,
                   tcpclosed, closes, wr, enq, deq>>

\* lines 307-318: network_write_data up to its first pump
WriteCall(id, len) ==
    /\ pc = "idle"
    /\ \E found \in Lookup(id) :
         IF found
         THEN /\ pc' = "wr_pump1"
              /\ rd' = [RdIdle EXCEPT !.op = "write", !.instance_id = id, !.len = len]
              /\ wr' = [WrIdle EXCEPT !.instance_id = id, !.len0 = len, !.len = len]
         ELSE /\ pc' = "ret"
              /\ rd' = [RdIdle EXCEPT !.op = "write_none", !.instance_id = id, !.len = len]
              /\ wr' = WrIdle
    /\ UNCHANGED <<network_fifo, hist, instances, es, inst_id, sock, freed, tcpclosed,
                   closes, net, enq, deq>>

\* lines 319-328: the pump returned and tcp_sndbuf reports credit > 0 (with
\* credit 0 the loop pumps again); one tcp_write and tcp_output, then the
\* pump of the next pass (318) or of the trailing wait (330).  The credit is
\* whatever the socket layer holds after the pump; tcp_sndbuf is read at 319
\* and again at 321 with nothing run in between, so both reads give it.
\* "released" notes that the instance had been freed when it was used.
WriteSend(credit) ==
    /\ pc = "wr_pump1"
    /\ credit # 0
    /\ LET n == wr_length(credit, wr.len)
       IN  /\ wr' = [wr EXCEPT !.credit = credit,
                               !.sends = Append(@, [at |-> wr.pbuffer, n |-> n,
                                                    credit |-> credit,
                                                    output |-> TRUE,
                                                    released |-> freed[wr.instance_id] > 0]),
                               !.pbuffer = wr_advance(@, n),
                               !.len = @ - n]
           /\ pc' = IF wr.len - n # 0 THEN "wr_pump1" ELSE "wr_pump2"
    /\ net' = NetIdle
    /\ UNCHANGED <<network_fifo, rd, hist, instances, es, inst_id, sock, freed,
                   tcpclosed, closes, enq, deq>>

\* lines 329-332: the trailing pump returned and tcp_sndbuf reports credit > 0
WriteDone(credit) ==
    /\ pc = "wr_pump2"
    /\ credit # 0
    /\ wr' = [wr EXCEPT !.credit = credit]
    /\ pc' = "ret"
    /\ net' = NetIdle
    /\ UNCHANGED <<network_fifo, rd, hist, instances, es, inst_id, sock, freed,
                   tcpclosed, closes, enq, deq>>

\* lines 337-355: network_close_instance
CloseInstance(id) ==
    /\ pc = "idle"
    /\ pc' = "ret"
    /\ \E found \in Lookup(id) :
         IF found
         THEN /\ instances' = instances \ {id}
              /\ network_close(id)
              /\ closes' = [closes EXCEPT ![id] = Bump(@)]
              /\ rd' = [RdIdle EXCEPT !.op = "close", !.instance_id = id, !.ret = 0]
         ELSE /\ rd' = [RdIdle EXCEPT !.op = "close", !.instance_id = id, !.ret = -ENOENT]
              /\ UNCHANGED <<network_fifo, instances, freed, sock, tcpclosed, closes>>
    /\ hist' = [HistIdle EXCEPT !.fifo0 = network_fifo]
    /\ UNCHANGED <<es, inst_id, net, wr, enq, deq>>

\* the callbacks and the calls that do not write
NextNet ==
    \/ \E ok \in BOOLEAN : Accept(ok)
    \/ \E id \in ConnIds, chain \in Chains : RecvData(id, chain)
    \/ \E id \in ConnIds : RecvErr(id)
    \/ \E id \in ConnIds : RecvClose(id)
    \/ \E id \in ConnIds : Error(id)
    \/ KeepAliveCall
    \/ KeepAliveDone
    \/ \E id \in ConnIds : CloseInstance(id)
    \/ Return

\* the writer, with the callbacks that can release the connection it writes to
NextWrite ==
    \/ \E ok \in BOOLEAN : Accept(ok)
    \/ \E id \in ConnIds : RecvClose(id)
    \/ \E id \in ConnIds : Error(id)
    \/ KeepAliveCall
    \/ KeepAliveDone
    \/ \E id \in ConnIds, len \in 0..MaxWrite : WriteCall(id, len)
    \/ \E credit \in 0..MaxCredit : WriteSend(credit)
    \/ \E credit \in 0..MaxCredit : WriteDone(credit)
    \/ \E id \in ConnIds : CloseInstance(id)
    \/ Return

SpecWrite == Init /\ [][NextWrite]_vars

SpecNet == Init /\ [][NextNet]_vars

\* the list alone: direct calls of fifo_insert_tail and fifo_remove_head
FifoInsert(id, bytes) ==
    /\ Len(enq) < MaxOps
    /\ network_fifo' = fifo_insert_tail(network_fifo, bytes, Len(bytes), id)
    /\ enq' = Append(enq, [instance_id |-> id, data |-> bytes, len |-> Len(bytes)])
    /\ UNCHANGED <<pc, rd, hist, netvars, deq>>

FifoRemove ==
    /\ network_fifo' = fifo_remove_head(network_fifo)
    /\ deq' = IF network_fifo = <<>> THEN deq ELSE Append(deq, network_fifo[1])
    /\ UNCHANGED <<pc, rd, hist, netvars, enq>>

NextFifo ==
    \/ \E id \in Ids, bytes \in SmallPayloads : FifoInsert(id, bytes)
    \/ FifoRemove

SpecFifo == Init /\ [][NextFifo]_vars

----------------------------------------------------------------------------
(* Properties                                                               *)

Head0 == hist.fifo0[1]
Rest0 == Tail(hist.fifo0)
Returned(op) == pc = "ret" /\ rd.op = op

\* offset of the first CR LF among the bytes b (all of them, NUL or not), or -1
RECURSIVE FirstCRLF(_, _)
FirstCRLF(b, i) ==
    IF i + 2 > Len(b) THEN -1
    ELSE IF b[i + 1] = CR /\ b[i + 2] = LF THEN i
    ELSE FirstCRLF(b, i + 1)

HasNUL(b) == \E i \in 1..Len(b) : b[i] = NUL
Node(id, bytes) == [instance_id |-> id, data |-> bytes, len |-> Len(bytes)]

\* C6: in the list-only specification, the chunks removed so far followed by
\* the chunks still queued are exactly the chunks inserted, in insertion order,
\* each with the tag, bytes and length it was inserted with.
C6_FifoOrder == enq = deq \o network_fifo

C6_Witness ==
    /\ Len(deq) >= 2
    /\ deq[1].instance_id # deq[2].instance_id
    /\ deq[1].data # deq[2].data
    /\ network_fifo # <<>>

\* C5: when comm_read finds a head chunk of at least len bytes it returns
\* without pumping, the output is the head's first len bytes, the head is
\* removed (equal length) or keeps its tag with the suffix as data and the
\* length reduced by len, and the chunks behind the head are untouched.
C5_ReadWithinHead ==
    (Returned("read") /\ Head0.len >= rd.len) =>
        /\ ~hist.pumped
        /\ rd.ret = rd.len
        /\ rd.instance_id = Head0.instance_id
        /\ rd.buf = SubSeq(Head0.data, 1, rd.len)
        /\ network_fifo =
             IF Head0.len = rd.len THEN Rest0
             ELSE <<Node(Head0.instance_id, SubSeq(Head0.data, rd.len + 1, Head0.len))>>
                  \o Rest0

C5_Witness ==
    /\ Returned("read")
    /\ rd.len >= 1
    /\ Head0.len > rd.len
    /\ Rest0 # <<>>
    /\ Head0.data[1] # Head0.data[Head0.len]

\* C1: when comm_read finds a head chunk shorter than len, the output is the
\* first len bytes of the chunks it took, in order, and what the last chunk
\* holds beyond that stays at the head of the queue under the same tag.
C1_ReadAcrossChunks ==
    (Returned("read") /\ Head0.len < rd.len) =>
        LET all  == Concat(hist.taken)
            last == hist.taken[Len(hist.taken)]
        IN  /\ rd.buf = SubSeq(all, 1, rd.len)
            /\ rd.instance_id = Head0.instance_id
            /\ Len(all) > rd.len =>
                 /\ network_fifo # <<>>
                 /\ network_fifo[1] =
                      Node(last.instance_id, SubSeq(all, rd.len + 1, Len(all)))

\* C2: comm_read_line on a head chunk without CR LF returns the chunk's tag,
\* the whole chunk as the line and its length, and removes the chunk.
\* (Stated for chunks of text, without NUL, which are among the chunks the
\* claim speaks of.)
C2_LineWithoutTerminator ==
    (/\ Returned("read_line")
     /\ FirstCRLF(Head0.data, 0) = -1
     /\ ~HasNUL(Head0.data)) =>
        /\ rd.instance_id = Head0.instance_id
        /\ rd.ret = Head0.len
        /\ SubSeq(rd.buf, 1, Head0.len) = Head0.data
        /\ network_fifo = Rest0

\* what C3 and C4 say of a line that ends at offset e of the head chunk and
\* starts at offset d: the line, its length, the tag, and the queue afterwards
LineFramed(d, e) ==
    LET R == SubSeq(Head0.data, e + 3, Head0.len)
    IN  /\ rd.instance_id = Head0.instance_id
        /\ rd.ret = e - d
        /\ rd.buf = SubSeq(Head0.data, d + 1, e) \o <<NUL>>
        /\ network_fifo =
             IF R = <<>> THEN Rest0 ELSE <<Node(Head0.instance_id, R)>> \o Rest0

\* C3 as stated: for a head chunk L CR LF R with L free of CR LF and not
\* empty at the start of the chunk, comm_read_line returns L.
C3_LineFramed_AnyBytes ==
    (Returned("read_line") /\ FirstCRLF(Head0.data, 0) > 0) =>
        LineFramed(0, FirstCRLF(Head0.data, 0))

\* C3, amended: the same, for every L that holds no NUL byte.
C3_LineFramed ==
    (/\ Returned("read_line")
     /\ FirstCRLF(Head0.data, 0) > 0
     /\ ~HasNUL(SubSeq(Head0.data, 1, FirstCRLF(Head0.data, 0)))) =>
        LineFramed(0, FirstCRLF(Head0.data, 0))

C3_Witness ==
    /\ Returned("read_line")
    /\ FirstCRLF(Head0.data, 0) > 0
    /\ ~HasNUL(SubSeq(Head0.data, 1, FirstCRLF(Head0.data, 0)))
    /\ FirstCRLF(Head0.data, 0) + 2 < Head0.len
    /\ network_fifo # <<>>
    /\ network_fifo[1].len = Head0.len - FirstCRLF(Head0.data, 0) - 2

\* C4 as stated: for a head chunk CR LF L CR LF R with L free of CR LF,
\* comm_read_line strips the first CR LF only and returns L (the empty line
\* when a second CR LF follows at once).
C4_LeadingCRLF_AnyBytes ==
    (/\ Returned("read_line")
     /\ FirstCRLF(Head0.data, 0) = 0
     /\ FirstCRLF(Head0.data, 2) # -1) =>
        LineFramed(2, FirstCRLF(Head0.data, 2))

\* C4, amended: the same, for every L that holds no NUL byte.
C4_LeadingCRLF ==
    (/\ Returned("read_line")
     /\ FirstCRLF(Head0.data, 0) = 0
     /\ FirstCRLF(Head0.data, 2) # -1
     /\ ~HasNUL(SubSeq(Head0.data, 3, FirstCRLF(Head0.data, 2)))) =>
        LineFramed(2, FirstCRLF(Head0.data, 2))

C4_Witness ==
    /\ Returned("read_line")
    /\ FirstCRLF(Head0.data, 0) = 0
    /\ FirstCRLF(Head0.data, 2) = 2
    /\ Head0.len > 4
    /\ network_fifo # <<>>
    /\ network_fifo[1].len = Head0.len - 4

\* C7: every tcp_write of network_write_data is made with a credit above
\* zero, the one tcp_sndbuf reported after the last pump, and carries at
\* most that many bytes.
C7_Backpressure ==
    \A i \in 1..Len(wr.sends) :
        /\ wr.sends[i].credit > 0
        /\ wr.sends[i].n <= wr.sends[i].credit

C7_Witness ==
    /\ Len(wr.sends) >= 2
    /\ wr.sends[1].n = wr.sends[1].credit
    /\ wr.sends[1].n < wr.len0
    /\ wr.sends[2].n < wr.sends[2].credit

\* the tcp_write calls of a finished write are slices of the buffer that
\* follow each other from its start: each begins where the one before ended
Contiguous(sends) ==
    /\ sends[1].at = 0
    /\ \A i \in 1..(Len(sends) - 1) : sends[i + 1].at = sends[i].at + sends[i].n

RECURSIVE SumN(_)
SumN(sends) == IF sends = <<>> THEN 0 ELSE sends[1].n + SumN(Tail(sends))

\* C8: when network_write_data returns from a write to a registered id, its
\* tcp_write calls were contiguous slices from the start of the buffer, their
\* lengths sum to the length asked, tcp_output followed each, and the credit
\* read last, after the last tcp_write, is not zero.
C8_WriteAll ==
    Returned("write") =>
        /\ Len(wr.sends) >= 1
        /\ Contiguous(wr.sends)
        /\ SumN(wr.sends) = wr.len0
        /\ wr.len = 0
        /\ \A i \in 1..Len(wr.sends) : wr.sends[i].output
        /\ wr.credit > 0

C8_Witness ==
    /\ Returned("write")
    /\ wr.len0 = MaxWrite
    /\ Len(wr.sends) >= 2
    /\ wr.sends[1].n # wr.sends[2].n

\* C9: once network_close_instance has succeeded for an id, it succeeded
\* once, the id is out of the registry, and the id's network_instance and
\* pcb were released exactly once each; a call that finds no such id
\* leaves the queue as it was.
C9_CloseOnce ==
    /\ \A id \in ConnIds :
          closes[id] >= 1 =>
              /\ closes[id] = 1
              /\ id \notin instances
              /\ freed[id] = 1
              /\ tcpclosed[id] = 1
    /\ (Returned("close") /\ rd.ret = -ENOENT) => network_fifo = hist.fifo0

\* C10: after network_recv has stored a chain s1..sn for a connection, the
\* queue is the queue before followed by n chunks, chunk i holding si under
\* the connection's id; n acknowledgments were made, the i-th of Len(si)
\* bytes; and the connection's pending chain is empty.
C10_DrainComplete ==
    net.kind = "data" =>
        /\ network_fifo =
             net.fifo0 \o [i \in 1..Len(net.chain) |-> Node(net.id, net.chain[i])]
        /\ net.acks = [i \in 1..Len(net.chain) |-> Len(net.chain[i])]
        /\ es[net.id].p = <<>>

C10_Witness ==
    /\ net.kind = "data"
    /\ Len(net.chain) >= 2
    /\ Len(net.chain[1]) # Len(net.chain[2])
    /\ net.fifo0 # <<>>
    /\ net.fifo0[1].instance_id # net.id

\* C11: network_write_data or network_close_instance called with an id that
\* is not in the registry returns -ENOENT ("no such connection") to its
\* caller, makes no tcp_write, closes nothing, and leaves the queue, the
\* registry and every instance and pcb as they were.
C11_AbsentIdReported ==
    [][\A id \in ConnIds :
         (/\ pc = "idle"
          /\ pc' = "ret"
          /\ rd'.op \in {"write_none", "close"}
          /\ rd'.instance_id = id
          /\ id \notin instances) =>
             /\ rd'.ret = -ENOENT
             /\ wr'.sends = <<>>
             /\ UNCHANGED <<network_fifo, instances, es, sock, freed, tcpclosed, closes>>]_vars

\* C12: a network_error callback for a connection leaves it without a pending
\* chain, frees its network_instance once, and takes its id out of the
\* registry.
C12_ErrorUnregisters ==
    [][\A id \in ConnIds :
         (sock[id] = "open" /\ sock'[id] = "gone") =>
             /\ es'[id].p = <<>>
             /\ freed'[id] = freed[id] + 1
             /\ id \notin instances']_vars

\* C13: when network_recv has handled a remote close (p == NULL) for a
\* connection, the connection is in ES_CLOSING, its pcb is closed and has no
\* callbacks any more, its network_instance was freed and tcp_close was
\* called, each once; this holds whether or not a chain was pending.
C13_RemoteCloseCloses ==
    net.kind = "close" =>
        /\ es[net.id].state = "ES_CLOSING"
        /\ es[net.id].p = <<>>
        /\ sock[net.id] = "closed"
        /\ freed[net.id] = 1
        /\ tcpclosed[net.id] = 1

C13_Witness ==
    /\ net.kind = "close"
    /\ sock[net.id] = "closed"
    /\ \E i \in 1..Len(net.fifo0) : net.fifo0[i].instance_id = net.id
    /\ \E id \in ConnIds : sock[id] = "open" /\ es[id].state = "ES_ACCEPTED"

\* C14: every step that calls tcp_close (network_close_instance, or
\* network_recv on a remote close) leaves the queue empty, whatever the tags
\* of the chunks queued; a network_error step leaves the queue as it was.
C14_CloseEmptiesQueue ==
    [][/\ (\E id \in ConnIds : tcpclosed'[id] # tcpclosed[id]) => network_fifo' = <<>>
       /\ (\E id \in ConnIds : sock[id] = "open" /\ sock'[id] = "gone") =>
              network_fifo' = network_fifo]_vars

C14_Witness ==
    /\ net.kind = "close"
    /\ Len(net.fifo0) >= 2
    /\ \E i \in 1..Len(net.fifo0) :
          /\ net.fifo0[i].instance_id # net.id
          /\ sock[net.fifo0[i].instance_id] = "open"
    /\ network_fifo = <<>>

\* C15: with every chunk inserted holding at least one byte, no chunk of the
\* queue has length 0 (and each chunk's length is the number of its bytes)
\* after any sequence of inserts, comm_read_line, comm_read and closes.
C15_NoEmptyChunk ==
    \A i \in 1..Len(network_fifo) :
        /\ network_fifo[i].len > 0
        /\ network_fifo[i].len = Len(network_fifo[i].data)

C15_Witness ==
    /\ Returned("read_line")
    /\ Head0.data = <<CR, LF>>
    /\ Rest0 # <<>>
    /\ network_fifo = Rest0

RECURSIVE SumLen(_)
SumLen(f) == IF f = <<>> THEN 0 ELSE f[1].len + SumLen(Tail(f))

\* C16: comm_read_line and comm_read return only after a chunk was queued for
\* them; comm_read that found a head shorter than len returns as soon as the
\* chunks it took total len or more, not later; and while the queue is empty
\* a waiting read stays in its pump loop with its locals unchanged, also
\* when a close has emptied the queue during the read.
C16_ReadsWait ==
    /\ [](Returned("read_line") => hist.fifo0 # <<>> /\ Len(hist.taken) = 1)
    /\ [](Returned("read") =>
            /\ hist.fifo0 # <<>>
            /\ Head0.len < rd.len =>
                 /\ rd.temp_len >= rd.len
                 /\ SumLen(SubSeq(hist.taken, 1, Len(hist.taken) - 1)) < rd.len)
    /\ [][(pc \in {"rl_pump", "rd_pump0", "rd_pump1"} /\ network_fifo = <<>>) =>
              (pc' = pc /\ rd' = rd)]_vars

C16_Witness ==
    /\ Returned("read")
    /\ hist.waited
    /\ hist.dropped > 0
    /\ Len(hist.taken) >= 2
    /\ rd.temp_len = rd.len

\* C17: no network_instance is freed more than once, no id whose instance
\* was freed is in the registry, and a network_close_instance that returns
\* success has freed an instance that had not been freed before.
C17_ReleasedOnce ==
    /\ \A id \in ConnIds :
          /\ freed[id] <= 1
          /\ freed[id] >= 1 => id \notin instances
    /\ (Returned("close") /\ rd.ret = 0) => freed[rd.instance_id] = 1

\* C18: no tcp_write of network_write_data is made on an instance that was
\* freed, and when the call returns the instance whose send window it read
\* last has not been freed.
C18_NoUseAfterRelease ==
    /\ \A i \in 1..Len(wr.sends) : ~wr.sends[i].released
    /\ Returned("write") => freed[wr.instance_id] = 0

\* C19: every chunk whose bytes a comm_read copied to its output carries the
\* id that the comm_read returns.
C19_OneConnectionPerRead ==
    Returned("read") =>
        \A i \in 1..Len(hist.taken) : hist.taken[i].instance_id = rd.instance_id

\* C20: between callbacks the chain pointer of every connection whose pcb is
\* open is empty; no network_recv in ES_RECEIVED chained its data behind a
\* pending chain; and after a network_recv that stored a chain of n pbufs, n
\* chunks were added to the queue and n acknowledgments made.
C20_NoPendingChain ==
    /\ \A id \in ConnIds : sock[id] = "open" => es[id].p = <<>>
    /\ net.kind # "chained"
    /\ net.kind = "data" =>
          /\ Len(net.acks) = Len(net.chain)
          /\ Len(network_fifo) = Len(net.fifo0) + Len(net.chain)

C20_Witness ==
    /\ net.kind = "data"
    /\ es[net.id].state = "ES_RECEIVED"
    /\ Len(net.chain) >= 2
    /\ \E i \in 1..Len(net.fifo0) : net.fifo0[i].instance_id = net.id

====
